---------------------------- MODULE Spec2Model ----------------------------
(***************************************************************************)
(* A model of the FastAPI wrapper around pyairbnb (src/app.py):            *)
(*   - the helpers miles_to_deg, clean_int and _slim, as operators that    *)
(*     compute what the Python code computes (Python's `or`, dict.get,     *)
(*     truthiness, int(float(s)), binary floating-point rounding);         *)
(*   - the /search and /calendar handlers, as step machines whose external *)
(*     collaborators (pyairbnb.search_all, details.get, price.get,         *)
(*     get_calendar, _http.simple_get) answer nondeterministically.        *)
(***************************************************************************)
EXTENDS Integers, Sequences, FiniteSets, TLC

VARIABLES
    hit,        \* normalizer: the raw record handed to _slim
    out,        \* normalizer: what _slim(hit) produced (Pending before the call)
    req,        \* /search: the query parameters of the request
    pc,         \* /search: position of the handler
    pmin,       \* /search: cleaned price_min
    pmax,       \* /search: cleaned price_max
    box,        \* /search: arguments last passed to pyairbnb.search_all
    calls,      \* /search: number of pyairbnb.search_all invocations
    upstream,   \* /search: how pyairbnb.search_all answered
    raw_hits,   \* /search: the records pyairbnb.search_all returned
    resp,       \* /search: the response of the request
    creq,       \* /calendar: the query parameters of the request
    cpc,        \* /calendar: position of the handler
    ext,        \* /calendar: how each external provider answers this request
    cst,        \* /calendar: the handler's locals
    cresp       \* /calendar: the response of the request

vars == << hit, out, req, pc, pmin, pmax, box, calls,
           upstream, raw_hits, resp, creq, cpc, ext, cst, cresp >>

slimVars == << hit, out >>
searchVars == << req, pc, pmin, pmax, box, calls, upstream, raw_hits, resp >>
calVars == << creq, cpc, ext, cst, cresp >>

---------------------------------------------------------------------------
(* Python values.  Every value is a record of the same shape, so that any  *)
(* two values can be compared: kind is "none", "num", "str", "map" (a      *)
(* dict), "raise" (an exception propagating instead of a value) or         *)
(* "pending" (no value yet).                                               *)

None == [kind |-> "none", num |-> 0, str |-> "", map |-> <<>>]
Num(n) == [kind |-> "num", num |-> n, str |-> "", map |-> <<>>]
Str(s) == [kind |-> "str", num |-> 0, str |-> s, map |-> <<>>]
Map(f) == [kind |-> "map", num |-> 0, str |-> "", map |-> f]
EmptyMap == Map(<<>>)
Raise == [kind |-> "raise", num |-> 0, str |-> "AttributeError", map |-> <<>>]
Pending == [kind |-> "pending", num |-> 0, str |-> "", map |-> <<>>]

\* bool(v): None, 0, "" and {} are falsy.
Truthy(v) ==
    CASE v.kind = "none" -> FALSE
      [] v.kind = "num" -> v.num # 0
      [] v.kind = "str" -> v.str # ""
      [] v.kind = "map" -> DOMAIN v.map # {}
      [] OTHER -> FALSE

\* d.get(k, dflt): an AttributeError unless d is a dict.
PyGet(d, k, dflt) ==
    IF d.kind # "map" THEN Raise
    ELSE IF k \in DOMAIN d.map THEN d.map[k] ELSE dflt

\* a or b: a when a is truthy, else b (b is not evaluated when a is truthy; an
\* exception raised while evaluating a propagates).
PyOr(a, b) ==
    IF a.kind = "raise" THEN Raise
    ELSE IF Truthy(a) THEN a ELSE b

slimFields(h) ==
    LET listing == PyOr(PyGet(h, "listing", None), h)
        pricing == PyOr(PyGet(h, "pricingQuote", None), PyGet(h, "price", EmptyMap))
    IN  [ id      |-> PyOr(PyGet(listing, "id", None), PyGet(listing, "listingId", None)),
          title   |-> PyOr(PyGet(listing, "name", None), PyGet(listing, "title", None)),
          price   |-> PyOr(PyGet(PyGet(pricing, "rate", EmptyMap), "amount", None),
                           PyGet(pricing, "label", None)),
          rating  |-> PyOr(PyGet(listing, "avgRating", None),
                           PyGet(PyGet(h, "rating", EmptyMap), "guestSatisfaction", None)),
          reviews |-> PyOr(PyGet(listing, "reviewsCount", None),
                           PyGet(PyGet(h, "rating", EmptyMap), "reviewsCount", None)),
          lat     |-> PyOr(PyGet(listing, "lat", None),
                           PyGet(PyGet(listing, "coordinates", EmptyMap), "latitude", None)),
          lon     |-> PyOr(PyGet(listing, "lng", None),
                           PyGet(PyGet(listing, "coordinates", EmptyMap), "longitude", None)),
          url     |-> PyGet(listing, "url", None) ]

\* _slim(hit): the dict of the eight fields, or the exception one of the lookups
\* raised.
_slim(h) ==
    LET f == slimFields(h)
    IN  IF \E k \in DOMAIN f : f[k].kind = "raise" THEN Raise ELSE Map(f)

\* What a call of _slim leaves of the caller's record: all of it (_slim only
\* reads the record, through get).
slimLeaves(h) == h

---------------------------------------------------------------------------
(* The raw records the normalizer is applied to: every dict with at most   *)
(* MaxKeys of the top-level keys _slim reads, each key holding None, a     *)
(* number, a string, an empty dict or a dict with one of the keys _slim    *)
(* reads there; and the record of the end-to-end scenario.                 *)

MaxKeys == 2

LeafVals == {None, Num(0), Num(7), Str("Loft")}
NonMaps == {None, Num(0), Num(5)}

RECURSIVE Build(_, _)
Build(S, KV) ==
    IF S = {} THEN {<<>>}
    ELSE LET k == CHOOSE x \in S : TRUE
         IN  {(k :> v) @@ f : v \in KV[k], f \in Build(S \ {k}, KV)}

\* The dicts with at most n keys, key k holding a value of KV[k].
MapsUpTo(KV, n) ==
    {Map(f) : f \in UNION {Build(S, KV) : S \in {T \in SUBSET DOMAIN KV : Cardinality(T) <= n}}}

\* What a key that should hold a dict may hold.
Holder(KV) == NonMaps \cup MapsUpTo(KV, 1)

CoordVals == Holder([latitude |-> LeafVals, longitude |-> LeafVals])
RateVals == Holder([amount |-> LeafVals])
PricingVals == Holder([rate |-> RateVals, label |-> LeafVals])
RatingVals == Holder([guestSatisfaction |-> LeafVals, reviewsCount |-> LeafVals])

ListingKV ==
    [ id |-> LeafVals, listingId |-> LeafVals, name |-> LeafVals, title |-> LeafVals,
      avgRating |-> LeafVals, reviewsCount |-> LeafVals, lat |-> LeafVals,
      lng |-> LeafVals, coordinates |-> CoordVals, url |-> LeafVals ]

HitKV ==
    [ listing |-> Holder(ListingKV), pricingQuote |-> PricingVals, price |-> PricingVals,
      rating |-> RatingVals,
      id |-> LeafVals, listingId |-> LeafVals, name |-> LeafVals, title |-> LeafVals,
      avgRating |-> LeafVals, reviewsCount |-> LeafVals, lat |-> LeafVals,
      lng |-> LeafVals, coordinates |-> CoordVals, url |-> LeafVals ]

\* {"listing": {"id": 27955738, "name": "Loft"}, "price": {"label": "$120/night"}}
ExampleHit ==
    Map([ listing |-> Map([id |-> Num(27955738), name |-> Str("Loft")]),
          price |-> Map([label |-> Str("$120/night")]) ])

\* The records with at most n top-level keys, and the scenario's.
Hits(n) == MapsUpTo(HitKV, n) \cup {ExampleHit}

---------------------------------------------------------------------------
(* The normalizer applied to one record.                                   *)

InitSlim ==
    /\ hit \in Hits(MaxKeys)
    /\ out = Pending

\* out = _slim(hit)
Normalize ==
    /\ out = Pending
    /\ out' = _slim(hit)
    /\ hit' = slimLeaves(hit)
    /\ UNCHANGED << searchVars, calVars >>

NextSlim == Normalize

---------------------------------------------------------------------------
(* The priority table of the specification (section 4.2), which the claims *)
(* about the normalizer are stated against.  A path is a sequence of keys. *)

Absent == [kind |-> "absent", num |-> 0, str |-> "", map |-> <<>>]

RECURSIVE At(_, _)
At(v, p) ==
    IF p = <<>> THEN v
    ELSE IF v.kind = "map" /\ Head(p) \in DOMAIN v.map THEN At(v.map[Head(p)], Tail(p))
    ELSE Absent

\* Non-null and non-empty; the number 0 is a value.
Present(v) ==
    /\ v.kind \in {"num", "str", "map"}
    /\ ~(v.kind = "str" /\ v.str = "")
    /\ ~(v.kind = "map" /\ DOMAIN v.map = {})

\* Output field -> candidate paths, highest priority first.
Table ==
    [ id      |-> << <<"listing", "id">>, <<"listing", "listingId">>, <<"id">>, <<"listingId">> >>,
      title   |-> << <<"listing", "name">>, <<"listing", "title">>, <<"title">> >>,
      price   |-> << <<"pricingQuote", "rate", "amount">>, <<"pricingQuote", "label">>,
                     <<"price", "rate", "amount">>, <<"price", "label">> >>,
      rating  |-> << <<"listing", "avgRating">>, <<"rating", "guestSatisfaction">> >>,
      reviews |-> << <<"listing", "reviewsCount">>, <<"rating", "reviewsCount">> >>,
      lat     |-> << <<"listing", "lat">>, <<"listing", "coordinates", "latitude">>,
                     <<"coordinates", "latitude">> >>,
      lon     |-> << <<"listing", "lng">>, <<"listing", "coordinates", "longitude">>,
                     <<"coordinates", "longitude">> >>,
      url     |-> << <<"listing", "url">>, <<"url">> >> ]

\* The lowest-priority candidates of a field (for id, the two top-level keys).
Lowest(f) ==
    IF f = "id" THEN {3, 4} ELSE {Len(Table[f])}

RECURSIVE FirstPresent(_, _)
FirstPresent(h, paths) ==
    IF paths = <<>> THEN None
    ELSE IF Present(At(h, Head(paths))) THEN At(h, Head(paths))
    ELSE FirstPresent(h, Tail(paths))

\* C1 (as claimed): _slim returns a slim listing for every record, never
\* raising, and a field none of whose candidates is there is null.
C1_Total ==
    out # Pending =>
        /\ out.kind = "map"
        /\ \A f \in DOMAIN Table :
               (\A i \in 1..Len(Table[f]) : At(hit, Table[f][i]).kind \in {"absent", "none"})
                   => f \in DOMAIN out.map /\ out.map[f] = None

\* C2 (as claimed): a value present only at the lowest-priority location of a
\* field is returned, also when the record carries a nested "listing" dict.
C2_FallbackChain ==
    out.kind = "map" =>
        \A f \in DOMAIN Table :
            LET low  == Lowest(f)
                high == (1..Len(Table[f])) \ low
                lows == [i \in 1..Cardinality(low) |-> Table[f][Len(Table[f]) - Cardinality(low) + i]]
                v    == FirstPresent(hit, lows)
            IN  ( /\ \A i \in high : At(hit, Table[f][i]).kind = "absent"
                  /\ Truthy(v) )
                    => out.map[f] = v

\* C3 (as claimed): each field is the first candidate, in the table's order,
\* that is non-null and non-empty (0 is a value), and null if there is none.
C3_FirstPresent ==
    out.kind = "map" =>
        \A f \in DOMAIN Table : out.map[f] = FirstPresent(hit, Table[f])

\* C4 (as claimed): a slim listing has exactly nine fields, guest capacity
\* among them; the scenario's record maps to id, title, price and six nulls.
C4_NineFields ==
    out.kind = "map" =>
        /\ Cardinality(DOMAIN out.map) = 9
        /\ \E k \in DOMAIN out.map : k \in {"guest_capacity", "persons", "personCapacity"}
        /\ hit = ExampleHit =>
               /\ out.map["id"] = Num(27955738)
               /\ out.map["title"] = Str("Loft")
               /\ out.map["price"] = Str("$120/night")
               /\ Cardinality({k \in DOMAIN out.map : out.map[k] = None}) = 6

---------------------------------------------------------------------------
(* Python's int has arbitrary precision.  A natural number is the sequence *)
(* of its limbs in base 2^LimbBits, least significant first, without       *)
(* leading zero limbs (zero is the empty sequence); an int is a sign and a *)
(* magnitude.  The operations are written without recursion over the limbs *)
(* where a closed form exists (carries by look-ahead).                     *)

LimbBits == 15

RECURSIVE Pow2(_)
Pow2(e) == IF e = 0 THEN 1 ELSE 2 * Pow2(e - 1)

Base == Pow2(LimbBits)

Abs(x) == IF x < 0 THEN -x ELSE x
Min(x, y) == IF x <= y THEN x ELSE y
Max(x, y) == IF x >= y THEN x ELSE y

\* The greatest element of a non-empty set of numbers.
Greatest(S) == CHOOSE i \in S : \A j \in S : j <= i

\* The sum of f[lo] .. f[hi].
RECURSIVE Sum(_, _, _)
Sum(f, lo, hi) ==
    IF lo > hi THEN 0
    ELSE IF lo = hi THEN f[lo]
    ELSE Sum(f, lo, (lo + hi) \div 2) + Sum(f, (lo + hi) \div 2 + 1, hi)

\* Limb i of a; 0 beyond its limbs.
Limb(a, i) == IF 1 <= i /\ i <= Len(a) THEN a[i] ELSE 0

\* a without its leading zero limbs.
Norm(a) ==
    IF Len(a) = 0 \/ a[Len(a)] # 0 THEN a
    ELSE LET nz == {i \in 1..Len(a) : a[i] # 0}
         IN  IF nz = {} THEN <<>> ELSE SubSeq(a, 1, Greatest(nz))

RECURSIVE NatOf(_)
NatOf(n) == IF n = 0 THEN <<>> ELSE <<n % Base>> \o NatOf(n \div Base)

\* a + b: limb i takes a carry when a lower limb overflows and every limb
\* in between is full.
NatAdd(a, b) ==
    IF Len(a) = 0 THEN Norm(b)
    ELSE IF Len(b) = 0 THEN Norm(a)
    ELSE LET n == Max(Len(a), Len(b))
             s == [i \in 1..(n + 1) |-> Limb(a, i) + Limb(b, i)]
             c == [i \in 1..(n + 1) |->
                      IF \E j \in 1..(i - 1) : s[j] >= Base /\ \A k \in (j + 1)..(i - 1) : s[k] = Base - 1
                        THEN 1 ELSE 0]
         IN  Norm([i \in 1..(n + 1) |-> (s[i] + c[i]) % Base])

\* a - b, for a >= b: limb i lends when a lower limb is short and every
\* limb in between is exact.
NatSub(a, b) ==
    IF Len(b) = 0 THEN a
    ELSE LET d == [i \in 1..Len(a) |-> a[i] - Limb(b, i)]
             c == [i \in 1..Len(a) |->
                      IF \E j \in 1..(i - 1) : d[j] < 0 /\ \A k \in (j + 1)..(i - 1) : d[k] = 0
                        THEN 1 ELSE 0]
         IN  Norm([i \in 1..Len(a) |-> (d[i] - c[i] + Base) % Base])

\* -1, 0 or 1 as a < b, a = b or a > b.
NatCmp(a, b) ==
    IF Len(a) # Len(b) THEN (IF Len(a) < Len(b) THEN -1 ELSE 1)
    ELSE LET df == {i \in 1..Len(a) : a[i] # b[i]}
         IN  IF df = {} THEN 0
             ELSE IF a[Greatest(df)] < b[Greatest(df)] THEN -1 ELSE 1

\* The number whose digits in base Base are the w[i], each below Base^2.
Wide(w) ==
    NatAdd([i \in 1..Len(w) |-> w[i] % Base], <<0>> \o [i \in 1..Len(w) |-> w[i] \div Base])

\* a * k, for a small k (0 <= k <= Base).
NatMulSmall(a, k) == Wide([i \in 1..Len(a) |-> a[i] * k])

\* a * b: column k sums the products a[i] * b[k + 1 - i], low and high
\* halves apart.
NatMul(a, b) ==
    LET n  == Len(a) + Len(b)
        lo == [k \in 1..n |-> Sum([i \in 1..Len(a) |-> (a[i] * Limb(b, k + 1 - i)) % Base], 1, Len(a))]
        hi == [k \in 1..n |-> Sum([i \in 1..Len(a) |-> (a[i] * Limb(b, k + 1 - i)) \div Base], 1, Len(a))]
    IN  IF a = <<>> \/ b = <<>> THEN <<>> ELSE NatAdd(Wide(lo), <<0>> \o Wide(hi))

\* a * 2^s.
ShiftLeft(a, s) ==
    LET q == s \div LimbBits
        t == s % LimbBits
    IN  IF Len(a) = 0 \/ s = 0 THEN a
        ELSE Norm([j \in 1..(Len(a) + q + 1) |->
                 ((Limb(a, j - q) * Pow2(t)) % Base) + (Limb(a, j - q - 1) \div Pow2(LimbBits - t))])

\* a divided by 2^s, rounded down.
ShiftRight(a, s) ==
    LET q == s \div LimbBits
        t == s % LimbBits
    IN  IF q >= Len(a) THEN <<>>
        ELSE IF s = 0 THEN a
        ELSE Norm([j \in 1..(Len(a) - q) |->
                     (Limb(a, j + q) \div Pow2(t)) + ((Limb(a, j + q + 1) % Pow2(t)) * Pow2(LimbBits - t))])

\* Bit i of a (bit 0 is the least significant).
Bit(a, i) == (Limb(a, i \div LimbBits + 1) \div Pow2(i % LimbBits)) % 2

\* The s low bits of a are zero.
LowZero(a, s) ==
    /\ \A i \in 1..Min(s \div LimbBits, Len(a)) : a[i] = 0
    /\ Limb(a, s \div LimbBits + 1) % Pow2(s % LimbBits) = 0

RECURSIVE SmallBitLen(_)
SmallBitLen(n) == IF n = 0 THEN 0 ELSE 1 + SmallBitLen(n \div 2)

\* The number of bits of a.
BitLen(a) == IF a = <<>> THEN 0 ELSE LimbBits * (Len(a) - 1) + SmallBitLen(a[Len(a)])

\* The quotient limb for the remainder r2 and the divisor b: the estimate
\* est from the top limbs, or up to 2 less; p is b * est.
DivLimb(b, r2, est, p) ==
    IF NatCmp(p, r2) <= 0 THEN est
    ELSE IF NatCmp(NatSub(p, b), r2) <= 0 THEN est - 1 ELSE est - 2

DivEstimate(b, r2, est) == DivLimb(b, r2, est, NatMulSmall(b, est))

\* The state after the quotient limb d.
DivPut(b, st, r2, d) ==
    [q |-> Norm(<<d>> \o st.q), r |-> NatSub(r2, NatMulSmall(b, d)), i |-> st.i - 1]

DivTake(b, st, r2) ==
    DivPut(b, st, r2,
           DivEstimate(b, r2, Min(Base - 1,
                                  (Limb(r2, Len(b) + 1) * Base + Limb(r2, Len(b))) \div b[Len(b)])))

\* One step of long division by a divisor b whose top limb is at least
\* Base / 2: limb st.i of a joins the remainder st.r, and the quotient st.q
\* gets its next limb.
DivStep(a, b, st) == DivTake(b, st, Norm(<<a[st.i]>> \o st.r))

\* Long division from limb st.i of a down to its first limb.
RECURSIVE DivFrom(_, _, _)
DivFrom(a, b, st) == IF st.i < 1 THEN st ELSE DivFrom(a, b, DivStep(a, b, st))

DivResult(st, sh) == [q |-> st.q, r |-> ShiftRight(st.r, sh)]

\* The division of a2 by b2, which are a and b shifted by sh bits: it starts
\* from the Len(b2) - 1 top limbs of a2, which are less than b2.
DivShifted(a, a2, b2, sh) ==
    LET k == Len(a2) - Len(b2) + 1
    IN  IF k < 1 THEN [q |-> <<>>, r |-> a]
        ELSE DivResult(DivFrom(a2, b2, [q |-> <<>>, r |-> SubSeq(a2, k + 1, Len(a2)), i |-> k]), sh)

\* Quotient and remainder of a by b # 0: both are shifted to bring the top
\* limb of the divisor to Base / 2 or more.
NatDivMod(a, b) ==
    LET sh == LimbBits - SmallBitLen(b[Len(b)])
    IN  DivShifted(a, ShiftLeft(a, sh), ShiftLeft(b, sh), sh)

\* h * h, or 10 * h * h.
Pow10Twice(h, odd) == NatMul(h, IF odd THEN NatMulSmall(h, 10) ELSE h)

\* 10^k
RECURSIVE Pow10(_)
Pow10(k) == IF k < 10 THEN NatOf(10^k) ELSE Pow10Twice(Pow10(k \div 2), k % 2 = 1)

\* An int from its sign and magnitude (there is no negative zero).
MkInt(neg, mag) == [neg |-> neg /\ mag # <<>>, mag |-> mag]

\* The Python int n.
PyInt(n) == MkInt(n < 0, NatOf(Abs(n)))

\* -1, 0 or 1 as x < y, x = y or x > y.
IntCmp(x, y) ==
    IF x.neg # y.neg THEN (IF x.neg THEN -1 ELSE 1)
    ELSE IF x.neg THEN NatCmp(y.mag, x.mag) ELSE NatCmp(x.mag, y.mag)

---------------------------------------------------------------------------
(* Python's float is IEEE 754 binary64.  A finite float is a sign, a       *)
(* mantissa of at most SigBits bits and an exponent, standing for          *)
(* mant * 2^exp; the mantissa has exactly SigBits bits unless the exponent *)
(* is MinExp (a subnormal), and zero has the empty mantissa and exponent   *)
(* 0.  Every operation rounds its exact result to the nearest float, ties  *)
(* to the even mantissa, and overflows to infinity.                        *)

SigBits == 53
MinExp == -1074
MaxExp == 971

Fin(neg, mant, exp) == [kind |-> "fin", neg |-> neg, mant |-> mant, exp |-> exp]
FlZero(neg) == Fin(neg, <<>>, 0)
FlInf(neg) == [kind |-> "inf", neg |-> neg, mant |-> <<>>, exp |-> 0]
FlNaN == [kind |-> "nan", neg |-> FALSE, mant |-> <<>>, exp |-> 0]

\* What float() and / raise.
ValueError == [kind |-> "ValueError", neg |-> FALSE, mant |-> <<>>, exp |-> 0]
ZeroDivisionError == [kind |-> "ZeroDivisionError", neg |-> FALSE, mant |-> <<>>, exp |-> 0]

\* The float of mantissa m and exponent t.
FlPack(neg, m, t) ==
    IF m = <<>> THEN FlZero(neg) ELSE IF t > MaxExp THEN FlInf(neg) ELSE Fin(neg, m, t)

\* A mantissa that rounding up has brought to SigBits + 1 bits is halved.
FlCarry(neg, m, t) ==
    IF BitLen(m) > SigBits THEN FlPack(neg, ShiftRight(m, 1), t + 1) ELSE FlPack(neg, m, t)

\* n * 2^e rounded at the exponent t > e: up when the first bit dropped is 1
\* and a later one is, or the last bit kept is 1.
FlRoundAt(neg, n, e, sticky, t) ==
    FlCarry(neg,
            IF Bit(n, t - e - 1) = 1 /\ (sticky \/ ~LowZero(n, t - e - 1) \/ Bit(n, t - e) = 1)
              THEN NatAdd(ShiftRight(n, t - e), <<1>>)
              ELSE ShiftRight(n, t - e),
            t)

\* The float nearest to (n + f) * 2^e, with the sign neg, where 0 <= f < 1
\* and f > 0 exactly when sticky (n then has more than SigBits + 1 bits).
FlRound(neg, n, e, sticky) ==
    IF n = <<>> THEN FlZero(neg)
    ELSE LET t == Max(e + BitLen(n) - SigBits, MinExp)
         IN  IF t <= e THEN FlPack(neg, ShiftLeft(n, e - t), t)
             ELSE FlRoundAt(neg, n, e, sticky, t)

\* float(n) of the int n.
FlOfInt(n) == FlRound(n < 0, NatOf(Abs(n)), 0, FALSE)

FlNeg(x) == IF x.kind = "nan" THEN x ELSE [x EXCEPT !.neg = ~x.neg]

\* The sum of the numbers a * 2^e and b * 2^e with the signs xneg and yneg.
FlAddAligned(xneg, yneg, a, b, e) ==
    IF xneg # yneg /\ NatCmp(a, b) = 0 THEN FlZero(FALSE)
    ELSE FlRound(IF xneg = yneg \/ NatCmp(a, b) > 0 THEN xneg ELSE yneg,
                 IF xneg = yneg THEN NatAdd(a, b)
                 ELSE IF NatCmp(a, b) > 0 THEN NatSub(a, b) ELSE NatSub(b, a),
                 e, FALSE)

\* x + y
FlAdd(x, y) ==
    IF x.kind = "nan" \/ y.kind = "nan" THEN FlNaN
    ELSE IF x.kind = "inf" THEN (IF y.kind = "inf" /\ y.neg # x.neg THEN FlNaN ELSE x)
    ELSE IF y.kind = "inf" THEN y
    ELSE IF x.mant = <<>> /\ y.mant = <<>> THEN FlZero(x.neg /\ y.neg)
    ELSE IF x.mant = <<>> THEN y
    ELSE IF y.mant = <<>> THEN x
    ELSE FlAddAligned(x.neg, y.neg,
                      ShiftLeft(x.mant, x.exp - Min(x.exp, y.exp)),
                      ShiftLeft(y.mant, y.exp - Min(x.exp, y.exp)),
                      Min(x.exp, y.exp))

\* x - y
FlSub(x, y) == FlAdd(x, FlNeg(y))

\* x * y
FlMul(x, y) ==
    IF x.kind = "nan" \/ y.kind = "nan" THEN FlNaN
    ELSE IF x.kind = "inf" \/ y.kind = "inf"
           THEN (IF (x.kind = "fin" /\ x.mant = <<>>) \/ (y.kind = "fin" /\ y.mant = <<>>)
                   THEN FlNaN ELSE FlInf(x.neg # y.neg))
    ELSE FlRound(x.neg # y.neg, NatMul(x.mant, y.mant), x.exp + y.exp, FALSE)

\* qr is the quotient and remainder of a * 2^s by b.
FlQuotRound(neg, a, e, s, qr) ==
    FlRound(neg, qr.q, e - s, qr.r # <<>> \/ (s < 0 /\ ~LowZero(a, -s)))

FlQuotAt(neg, a, b, e, s) ==
    FlQuotRound(neg, a, e, s, NatDivMod(IF s >= 0 THEN ShiftLeft(a, s) ELSE ShiftRight(a, -s), b))

\* The float nearest to (a / b) * 2^e, for naturals a and b # 0: the
\* quotient is taken to SigBits + 2 or SigBits + 3 bits, and what a shift of
\* a or the division leaves over is sticky.
FlQuot(neg, a, b, e) ==
    IF a = <<>> THEN FlZero(neg)
    ELSE FlQuotAt(neg, a, b, e, SigBits + 2 + BitLen(b) - BitLen(a))

\* x / y
FlDiv(x, y) ==
    IF y.kind = "fin" /\ y.mant = <<>> THEN ZeroDivisionError
    ELSE IF x.kind = "nan" \/ y.kind = "nan" THEN FlNaN
    ELSE IF x.kind = "inf" THEN (IF y.kind = "inf" THEN FlNaN ELSE FlInf(x.neg # y.neg))
    ELSE IF y.kind = "inf" THEN FlZero(x.neg # y.neg)
    ELSE FlQuot(x.neg # y.neg, x.mant, y.mant, x.exp - y.exp)

---------------------------------------------------------------------------
(* float(val) of a str, the sequence of its code points: white space       *)
(* around it is dropped, an underscore may stand between two digits, and   *)
(* what is left is a sign and "inf", "infinity" or "nan" in any case, or a *)
(* decimal number with an optional exponent.  A digit is any decimal digit *)
(* of Unicode; the sign, the point, the letters and the underscore are the *)
(* ASCII ones.  Anything else raises ValueError.                           *)

\* The white space float() drops: tab to carriage return, the space, and
\* NEL, NBSP and the other space separators beyond ASCII.
IsSpace(c) ==
    c \in (9..13) \cup {32, 133, 160, 5760} \cup (8192..8202) \cup {8232, 8233, 8239, 8287, 12288}

\* The code points of the digits 0 (Unicode 14): each is followed by its
\* digits 1 to 9.
DigitZeros ==
    { 48, 1632, 1776, 1984, 2406, 2534, 2662, 2790, 2918, 3046, 3174, 3302, 3430, 3558,
      3664, 3792, 3872, 4160, 4240, 6112, 6160, 6470, 6608, 6784, 6800, 6992, 7088, 7232,
      7248, 42528, 43216, 43264, 43472, 43504, 43600, 44016, 65296, 66720, 68912, 69734,
      69872, 69942, 70096, 70384, 70736, 70864, 71248, 71360, 71472, 71904, 72016, 72784,
      73040, 73120, 92768, 92864, 93008, 120782, 120792, 120802, 120812, 120822, 123200,
      123632, 125264, 130032 }

IsDigit(c) == \E z \in DigitZeros : z <= c /\ c <= z + 9
DigitVal(c) == c - (CHOOSE z \in DigitZeros : z <= c /\ c <= z + 9)

\* The ASCII letter in lower case.
Lower(c) == IF 65 <= c /\ c <= 90 THEN c + 32 ELSE c

\* s without the white space around it: from its first character that is
\* not white space to its last, found as the first from the end.
Strip(s) ==
    LET ink == {i \in 1..Len(s) : ~IsSpace(s[i])}
        kni == {i \in 1..Len(s) : ~IsSpace(s[Len(s) + 1 - i])}
    IN  IF ink = {} THEN <<>>
        ELSE SubSeq(s, CHOOSE i \in ink : \A j \in ink : i <= j,
                       Len(s) + 1 - (CHOOSE i \in kni : \A j \in kni : i <= j))

\* Every underscore (95) stands between two digits.
UnderscoresOk(s) ==
    \A i \in 1..Len(s) :
        s[i] = 95 => i > 1 /\ i < Len(s) /\ IsDigit(s[i - 1]) /\ IsDigit(s[i + 1])

NotUnderscore(c) == c # 95

\* u without a leading + (43) or - (45).
DropSign(u) == IF u # <<>> /\ u[1] \in {43, 45} THEN Tail(u) ELSE u

\* The string as float() reads it: stripped, without underscores, without
\* its sign, in lower case.
Unsigned(s) ==
    LET u == DropSign(SelectSeq(Strip(s), NotUnderscore))
    IN  [i \in 1..Len(u) |-> Lower(u[i])]

Negative(s) == Strip(s) # <<>> /\ Strip(s)[1] = 45

\* The number of digits of b from position i on.
DigitRun(b, i) ==
    LET stop == {j \in i..Len(b) : ~IsDigit(b[j])}
    IN  IF stop = {} THEN Max(0, Len(b) + 1 - i)
        ELSE (CHOOSE j \in stop : \A k \in stop : j <= k) - i

\* The parts of a decimal number after its n1 digits and, when dot, its
\* point and n2 digits: from position i2 an exponent (e, 101) of n3 digits
\* starting at position i3.
PartsExp(b, n1, dot, n2) ==
    LET i2 == n1 + 1 + (IF dot THEN 1 + n2 ELSE 0)
        ex == i2 <= Len(b) /\ b[i2] = 101
        sg == i2 + 1 <= Len(b) /\ b[i2] = 101 /\ b[i2 + 1] \in {43, 45}
    IN  [ n1 |-> n1, dot |-> dot, n2 |-> n2, i2 |-> i2, ex |-> ex,
          eneg |-> sg /\ b[i2 + 1] = 45, i3 |-> i2 + 1 + (IF sg THEN 1 ELSE 0),
          n3 |-> IF ex THEN DigitRun(b, i2 + 1 + (IF sg THEN 1 ELSE 0)) ELSE 0 ]

\* The parts of a decimal number: n1 digits, then a point (46) and n2
\* digits, then an exponent.
Parts(b) ==
    LET n1  == DigitRun(b, 1)
        dot == n1 + 1 <= Len(b) /\ b[n1 + 1] = 46
    IN  PartsExp(b, n1, dot, IF dot THEN DigitRun(b, n1 + 2) ELSE 0)

\* "inf", "infinity"
IsInf(b) == b = <<105, 110, 102>> \/ b = <<105, 110, 102, 105, 110, 105, 116, 121>>
\* "nan"
IsNaN(b) == b = <<110, 97, 110>>

\* d without its leading zeros.
DropZeros(d) ==
    LET nz == {i \in 1..Len(d) : DigitVal(d[i]) # 0}
    IN  IF nz = {} THEN <<>> ELSE SubSeq(d, CHOOSE i \in nz : \A j \in nz : i <= j, Len(d))

\* The digits of the decimal number b before and after its point.
DigitsOf(b, p) == SubSeq(b, 1, p.n1) \o SubSeq(b, p.n1 + 2, p.n1 + 1 + p.n2)

\* float() takes up to MaxDigits digits after the leading zeros, and up to
\* MaxDigits digits after the point.
MaxDigits == 1000000000

\* b is a decimal number: it has a digit, an exponent has a digit, nothing
\* follows, and it has no more digits than float() takes.
PartsOk(b, p) ==
    /\ p.n1 + p.n2 >= 1
    /\ IF p.ex THEN p.n3 >= 1 /\ p.i3 + p.n3 = Len(b) + 1 ELSE p.i2 = Len(b) + 1
    /\ p.n2 <= MaxDigits
    /\ Len(DropZeros(DigitsOf(b, p))) <= MaxDigits

IsDecimal(b) == PartsOk(b, Parts(b))

\* float(s) does not raise.
FloatOk(s) ==
    /\ UnderscoresOk(Strip(s))
    /\ IsInf(Unsigned(s)) \/ IsNaN(Unsigned(s)) \/ IsDecimal(Unsigned(s))

\* The number written by the digits d[lo] .. d[hi].
RECURSIVE NatOfDigits(_, _, _)
NatOfDigits(d, lo, hi) ==
    IF lo > hi THEN <<>>
    ELSE IF lo = hi THEN NatOf(DigitVal(d[lo]))
    ELSE NatAdd(NatMul(NatOfDigits(d, lo, (lo + hi) \div 2), Pow10(hi - (lo + hi) \div 2)),
                NatOfDigits(d, (lo + hi) \div 2 + 1, hi))

\* An exponent of more than 9 digits, or beyond MaxAbsExp, is read as
\* MaxAbsExp: with at most MaxDigits digits the number is an infinity or a
\* zero either way.
MaxAbsExp == 1100000000

\* The exponent written by the digits of b from position i on.
ExpFrom(b, i) ==
    LET d == DropZeros(SubSeq(b, i, Len(b)))
    IN  IF Len(d) > 9 THEN MaxAbsExp
        ELSE Min(MaxAbsExp, Sum([j \in 1..Len(d) |-> DigitVal(d[j]) * 10^(Len(d) - j)], 1, Len(d)))

\* The float nearest to n * 10^x.
DecRound(neg, n, x) ==
    IF x >= 0 THEN FlRound(neg, NatMul(n, Pow10(x)), 0, FALSE)
    ELSE FlQuot(neg, n, Pow10(-x), 0)

\* The digits that decide the rounding: no float and no midpoint of two
\* floats has more than 768 digits, so past SigDigits digits it only
\* matters whether a non-zero digit follows; one digit stands for the rest.
SigDigits == 800

DecSig(d0) ==
    IF Len(d0) <= SigDigits THEN d0
    ELSE SubSeq(d0, 1, SigDigits)
           \o << IF \E i \in (SigDigits + 1)..Len(d0) : DigitVal(d0[i]) # 0 THEN 49 ELSE 48 >>

\* The float nearest to d1 * 10^(top - Len(d1)).
DecOfSig(neg, d1, top) == DecRound(neg, NatOfDigits(d1, 1, Len(d1)), top - Len(d1))

\* The float nearest to d0 * 10^x, d0 a sequence of digits that does not
\* start with a zero: at 10^309 and beyond an infinity, below 10^-324 a zero.
DecOfDigits(neg, d0, x) ==
    IF d0 = <<>> THEN FlZero(neg)
    ELSE IF x + Len(d0) - 1 >= 309 THEN FlInf(neg)
    ELSE IF x + Len(d0) - 1 <= -325 THEN FlZero(neg)
    ELSE DecOfSig(neg, DecSig(d0), x + Len(d0))

\* The float nearest to d * 10^x, d a sequence of digits.
DecToFloat(neg, d, x) == DecOfDigits(neg, DropZeros(d), x)

\* The float of a decimal number b with the parts p.
FloatOfParts(neg, b, p) ==
    DecToFloat(neg, DigitsOf(b, p),
               (IF p.ex THEN (IF p.eneg THEN -1 ELSE 1) * ExpFrom(b, p.i3) ELSE 0) - p.n2)

FloatOfBody(neg, b) ==
    IF IsInf(b) THEN FlInf(neg)
    ELSE IF IsNaN(b) THEN FlNaN
    ELSE FloatOfParts(neg, b, Parts(b))

\* float(s)
PyFloat(s) == IF ~FloatOk(s) THEN ValueError ELSE FloatOfBody(Negative(s), Unsigned(s))

\* int(x) of a finite float: towards zero.
IntOfFloat(x) ==
    MkInt(x.neg, IF x.exp >= 0 THEN ShiftLeft(x.mant, x.exp) ELSE ShiftRight(x.mant, -x.exp))

\* int(x), or default when that raises (on an infinity or a NaN) or float()
\* raised before it.
IntOrDefault(x, default) == IF x.kind = "fin" THEN IntOfFloat(x) ELSE default

\* clean_int(val, default): int(float(val)), or default when that raises.
clean_int(val, default) == IntOrDefault(PyFloat(val), default)

\* _DEG_PER_MILE = 1 / 69.0
\* (the literal 69.0 is read as float("69.0") is)
_DEG_PER_MILE == FlDiv(FlOfInt(1), PyFloat(<<54, 57, 46, 48>>))

\* mi / 96.0: the digits of 69 transposed.
miles_to_deg_96(mi) == FlMul(mi, FlDiv(FlOfInt(1), PyFloat(<<57, 54, 46, 48>>)))

\* miles_to_deg(mi) = mi * _DEG_PER_MILE
miles_to_deg(mi) == FlMul(mi, _DEG_PER_MILE)

---------------------------------------------------------------------------
(* The query strings tried.  Chars holds the digits 0 and 7, the minus     *)
(* sign, the decimal point, the letter e, the underscore, the space, the   *)
(* no-break space, and x, a character float() has no use for.              *)

MaxStr == 2

Chars == {48, 55, 45, 46, 101, 95, 32, 160, 120}

\* The strings of length at most n over Chars.
RECURSIVE Strings(_)
Strings(n) ==
    IF n = 0 THEN {<<>>}
    ELSE Strings(n - 1) \cup {Append(s, c) : s \in {t \in Strings(n - 1) : Len(t) = n - 1}, c \in Chars}

\* The defaults of the price_min and price_max query parameters: "0" and
\* "10000".
DefaultPriceMin == <<48>>
DefaultPriceMax == <<49, 48, 48, 48, 48>>

---------------------------------------------------------------------------
(* GET /search                                                             *)
(*                                                                         *)
(* The handler search_listings from its first statement on: req holds the  *)
(* parameters as the handler receives them, lat, lon and radius as floats  *)
(* and the prices and the token as strings.  What FastAPI does with a      *)
(* query before it calls the handler (a missing or malformed lat, lon or   *)
(* radius) happens outside app.py and is not part of the steps below.      *)

API_TOKEN == "changeme"
Tokens == {API_TOKEN, "wrong"}

NoReq == [token |-> "", lat |-> FlZero(FALSE), lon |-> FlZero(FALSE), radius |-> FlZero(FALSE),
          price_min |-> <<>>, price_max |-> <<>>]
NoBox == [ne_lat |-> FlZero(FALSE), ne_lon |-> FlZero(FALSE), sw_lat |-> FlZero(FALSE),
          sw_lon |-> FlZero(FALSE), price_min |-> PyInt(0), price_max |-> PyInt(0)]
NoResp == [status |-> 0, detail |-> "", centre_lat |-> FlZero(FALSE), centre_lon |-> FlZero(FALSE),
           radius_mi |-> FlZero(FALSE), count |-> 0, listings |-> <<>>]

Failure(code, text) == [NoResp EXCEPT !.status = code, !.detail = text]

\* How pyairbnb.search_all can answer: it raises, or returns a list of records.
\* err is str(err) of the exception raised.
Raises(err) == [kind |-> "raise", hits |-> <<>>, err |-> err]
Returns(hits) == [kind |-> "return", hits |-> hits, err |-> ""]

\* if token != API_TOKEN: raise HTTPException(401, "Invalid token")
SearchAuth ==
    /\ pc = "auth"
    /\ IF req.token # API_TOKEN
         THEN pc' = "done" /\ resp' = Failure(401, "Invalid token")
         ELSE pc' = "prices" /\ resp' = resp
    /\ UNCHANGED << req, pmin, pmax, box, calls, upstream, raw_hits >>
    /\ UNCHANGED << slimVars, calVars >>

\* A variant that lets price_min = price_max through.
SearchPricesLax ==
    /\ pc = "prices"
    /\ pmin' = clean_int(req.price_min, PyInt(0))
    /\ pmax' = clean_int(req.price_max, PyInt(10000))
    /\ IF IntCmp(pmin', pmax') > 0
         THEN pc' = "done" /\ resp' = Failure(400, "price_min must be < price_max")
         ELSE pc' = "call" /\ resp' = resp
    /\ UNCHANGED << req, box, calls, upstream, raw_hits >>
    /\ UNCHANGED << slimVars, calVars >>

\* pmin, pmax = clean_int(...); if pmin >= pmax: raise HTTPException(400, ...)
\* (the detail is written here without the backquotes around the two names).
SearchPrices ==
    /\ pc = "prices"
    /\ pmin' = clean_int(req.price_min, PyInt(0))
    /\ pmax' = clean_int(req.price_max, PyInt(10000))
    /\ IF IntCmp(pmin', pmax') >= 0
         THEN pc' = "done" /\ resp' = Failure(400, "price_min must be < price_max")
         ELSE pc' = "call" /\ resp' = resp
    /\ UNCHANGED << req, box, calls, upstream, raw_hits >>
    /\ UNCHANGED << slimVars, calVars >>

\* The box of deg degrees around (lat, lon), and the price range.
searchBox(lat, lon, deg, lo, hi) ==
    [ ne_lat |-> FlAdd(lat, deg), ne_lon |-> FlAdd(lon, deg),
      sw_lat |-> FlSub(lat, deg), sw_lon |-> FlSub(lon, deg),
      price_min |-> lo, price_max |-> hi ]

\* The bounding box and price range handed to pyairbnb.search_all.
searchArgs(lat, lon, radius, lo, hi) == searchBox(lat, lon, miles_to_deg(radius), lo, hi)

\* try: raw_hits = pyairbnb.search_all(...)
\* except Exception as err: raise HTTPException(502, f"search failed: {err}")
SearchUpstream ==
    /\ pc = "call"
    /\ box' = searchArgs(req.lat, req.lon, req.radius, pmin, pmax)
    /\ calls' = calls + 1
    /\ IF upstream.kind = "raise"
         THEN pc' = "done" /\ resp' = Failure(502, "search failed: " \o upstream.err) /\ raw_hits' = raw_hits
         ELSE pc' = "respond" /\ resp' = resp /\ raw_hits' = upstream.hits
    /\ UNCHANGED << req, pmin, pmax, upstream >>
    /\ UNCHANGED << slimVars, calVars >>

RECURSIVE Reverse(_)
Reverse(s) == IF s = <<>> THEN <<>> ELSE Append(Reverse(Tail(s)), Head(s))

\* A variant that returns the listings in reverse order.
searchResultReversed(lat, lon, radius, hits) ==
    LET listings == [i \in 1..Len(hits) |-> _slim(hits[i])]
    IN  IF \E i \in 1..Len(hits) : listings[i].kind = "raise"
          THEN Failure(500, "AttributeError")
          ELSE IF lat.kind # "fin" \/ lon.kind # "fin" \/ radius.kind # "fin"
          THEN Failure(500, "ValueError")
          ELSE [ status |-> 200, detail |-> "", centre_lat |-> lat, centre_lon |-> lon,
                 radius_mi |-> radius, count |-> Len(hits), listings |-> Reverse(listings) ]

\* return {"centre": ..., "radius_mi": radius, "count": len(raw_hits),
\*         "listings": [_slim(hit) for hit in raw_hits]}
\* An exception of _slim is not caught: the request ends as a server error
\* (500).  So does a returned dict whose lat, lon or radius is an infinity or
\* a NaN: the response is rendered as JSON, which has no such numbers, and
\* the rendering raises ValueError.
searchResult(lat, lon, radius, hits) ==
    LET listings == [i \in 1..Len(hits) |-> _slim(hits[i])]
    IN  IF \E i \in 1..Len(hits) : listings[i].kind = "raise"
          THEN Failure(500, "AttributeError")
          ELSE IF lat.kind # "fin" \/ lon.kind # "fin" \/ radius.kind # "fin"
          THEN Failure(500, "ValueError")
          ELSE [ status |-> 200, detail |-> "", centre_lat |-> lat, centre_lon |-> lon,
                 radius_mi |-> radius, count |-> Len(hits), listings |-> listings ]

SearchRespond ==
    /\ pc = "respond"
    /\ resp' = searchResult(req.lat, req.lon, req.radius, raw_hits)
    /\ pc' = "done"
    /\ UNCHANGED << req, pmin, pmax, box, calls, upstream, raw_hits >>
    /\ UNCHANGED << slimVars, calVars >>

NextSearch == SearchAuth \/ SearchPrices \/ SearchUpstream \/ SearchRespond

IdleSearch ==
    /\ req = NoReq /\ pc = "idle" /\ pmin = PyInt(0) /\ pmax = PyInt(0) /\ box = NoBox
    /\ calls = 0 /\ upstream = Raises("") /\ raw_hits = <<>> /\ resp = NoResp

StartSearch ==
    /\ pc = "auth" /\ pmin = PyInt(0) /\ pmax = PyInt(0) /\ box = NoBox
    /\ calls = 0 /\ raw_hits = <<>> /\ resp = NoResp

---------------------------------------------------------------------------
(* GET /calendar                                                           *)

Rooms == {"27955738", "1"}

NoCalReq == [token |-> "", room |-> ""]
NoCalResp == [status |-> 0, detail |-> "", room_id |-> "", details |-> None,
              pricing |-> None, calendar |-> None]
NoLocals == [details |-> None, price_input |-> None, pricing |-> None,
             priceCalls |-> 0, fallback |-> FALSE, errs |-> <<>>]

CalFailure(code, text) == [NoCalResp EXCEPT !.status = code, !.detail = text]

\* What pyairbnb.details.get can return as (deets, price_input, cookies).
SomeDetails == Map([title |-> Str("Loft")])
RealPriceInput(room) ==
    Map([api_key |-> Str("key"), impression_id |-> Str("p3"), product_id |-> Str(room)])
DummyPriceInput(room) ==
    Map([api_key |-> Str("dummy"), impression_id |-> Str("0"), product_id |-> Str(room)])
PriceInputs(room) ==
    { None, RealPriceInput(room), DummyPriceInput(room),
      Map([impression_id |-> Str("p3"), product_id |-> Str(room)]) }

\* How the providers can answer one request.
Answers(room) ==
    [ details : {[kind |-> "raise", deets |-> None, price_input |-> None]}
                  \cup [kind : {"return"}, deets : {None, EmptyMap, SomeDetails},
                        price_input : PriceInputs(room)],
      ics     : {"raise", "vcalendar", "other"},
      price   : {"raise", "none", "quote"},
      cal     : {"raise", "none", "data"} ]

\* if token != API_TOKEN: raise HTTPException(401, "Invalid token")
CalAuth ==
    /\ cpc = "auth"
    /\ IF creq.token # API_TOKEN
         THEN cpc' = "done" /\ cresp' = CalFailure(401, "Invalid token")
         ELSE cpc' = "details" /\ cresp' = cresp
    /\ UNCHANGED << creq, ext, cst >>
    /\ UNCHANGED << slimVars, searchVars >>

\* details, price_input, cookies = _details_with_fallback(room)
CalDetails ==
    /\ cpc = "details"
    /\ CASE ext.details.kind = "raise" ->
              /\ cpc' = "done" /\ cresp' = CalFailure(500, "details") /\ cst' = cst
         [] ext.details.kind = "return" /\ Truthy(ext.details.deets) ->
              /\ cpc' = "pricing" /\ cresp' = cresp
              /\ cst' = [cst EXCEPT !.details = ext.details.deets,
                                    !.price_input = ext.details.price_input]
         [] ext.details.kind = "return" /\ ~Truthy(ext.details.deets) /\ ext.ics = "vcalendar" ->
              /\ cpc' = "pricing" /\ cresp' = cresp
              /\ cst' = [cst EXCEPT !.details = EmptyMap,
                                    !.price_input = DummyPriceInput(creq.room),
                                    !.fallback = TRUE]
         [] OTHER ->
              /\ cpc' = "done" /\ cresp' = CalFailure(404, "not found") /\ cst' = cst
    /\ UNCHANGED << creq, ext >>
    /\ UNCHANGED << slimVars, searchVars >>

\* The three price_input[...] subscripts of the pyairbnb.price.get call succeed.
HasPriceKeys(pi) == {"api_key", "impression_id", "product_id"} \subseteq DOMAIN pi.map

\* The value pyairbnb.price.get returns for an answer.
Quote(answer) == IF answer = "quote" THEN Map([total |-> Num(7)]) ELSE None

\* pricing = None
\* if price_input.get("api_key") != "dummy":
\*     try: pricing = pyairbnb.price.get(price_input["api_key"], ...)
\*     except Exception: pricing = None
CalPricing ==
    /\ cpc = "pricing"
    /\ IF cst.price_input.kind # "map"
         THEN cpc' = "done" /\ cresp' = CalFailure(500, "AttributeError") /\ cst' = cst
         ELSE /\ cpc' = "calendar" /\ cresp' = cresp
              /\ IF PyGet(cst.price_input, "api_key", None) # Str("dummy")
                      /\ HasPriceKeys(cst.price_input)
                   THEN cst' = [cst EXCEPT !.priceCalls = @ + 1,
                                           !.pricing = IF ext.price = "raise" THEN None
                                                       ELSE Quote(ext.price)]
                   ELSE cst' = cst
    /\ UNCHANGED << creq, ext >>
    /\ UNCHANGED << slimVars, searchVars >>

\* A variant without the ICS placeholder.
calendarDataNoIcs(answer, room) ==
    IF answer = "data" THEN Map([days |-> Num(7)]) ELSE None

\* calendar_data: what pyairbnb.get_calendar returned, or {"ics": ics_url} when
\* it raised or returned None.
calendarData(answer, room) ==
    IF answer = "data" THEN Map([days |-> Num(7)]) ELSE Map([ics |-> Str(room)])

\* The calendar step and the response.
CalCalendar ==
    /\ cpc = "calendar"
    /\ cpc' = "done"
    /\ cst' = [cst EXCEPT !.errs = IF ext.cal = "raise" THEN <<"json-calendar">> ELSE <<>>]
    /\ IF calendarData(ext.cal, creq.room) = None
         THEN cresp' = CalFailure(502, "json-calendar")
         ELSE cresp' = [ status |-> 200, detail |-> "", room_id |-> creq.room,
                         details |-> PyOr(cst.details, None),
                         pricing |-> cst.pricing,
                         calendar |-> calendarData(ext.cal, creq.room) ]
    /\ UNCHANGED << creq, ext >>
    /\ UNCHANGED << slimVars, searchVars >>

NextCalendar == CalAuth \/ CalDetails \/ CalPricing \/ CalCalendar

---------------------------------------------------------------------------
(* Initial states and specifications.                                      *)

IdleSlim == hit = EmptyMap /\ out = Pending
IdleCal == creq = NoCalReq /\ cpc = "idle" /\ ext = <<>> /\ cst = NoLocals /\ cresp = NoCalResp

\* One call of _slim on any record.
InitNormalizer == InitSlim /\ IdleSearch /\ IdleCal
SpecSlim == InitNormalizer /\ [][NextSlim]_vars

\* A few records: the scenario's, one _slim raises on, a flat one, an empty
\* one, and one whose nested rating is 0.
FewHits ==
    { ExampleHit,
      Map([price |-> None]),
      Map([id |-> Num(7), title |-> Str("Loft")]),
      EmptyMap,
      Map([ listing |-> Map([avgRating |-> Num(0)]),
            rating |-> Map([guestSatisfaction |-> Num(5)]) ]) }

MaxHits == 2

RECURSIVE Lists(_)
Lists(n) ==
    IF n = 0 THEN {<<>>}
    ELSE Lists(n - 1) \cup {Append(l, h) : l \in {t \in Lists(n - 1) : Len(t) = n - 1}, h \in FewHits}

\* The floats float() reads from the decimal strings sg m "e" k.
Decimals(S, M, K) == {PyFloat(sg \o m \o <<101>> \o k) : sg \in S, m \in M, k \in K}

\* radius: float = Query(5.0)
DefaultRadius == PyFloat(<<53, 46, 48>>)

\* 32 and -80.1; 5.0 and 1; "0", "10000" and "x".
GeoFew == {PyFloat(<<51, 50>>), PyFloat(<<45, 56, 48, 46, 49>>)}
RadiusFew == {DefaultRadius, PyFloat(<<49>>)}
PriceFew == {DefaultPriceMin, DefaultPriceMax, <<120>>}

\* /search requests over every answer of pyairbnb.search_all.
InitSearch ==
    /\ req \in [token : Tokens, lat : GeoFew, lon : GeoFew, radius : RadiusFew,
                price_min : PriceFew, price_max : PriceFew]
    /\ upstream \in {Raises("boom"), Raises("")} \cup {Returns(l) : l \in Lists(MaxHits)}
    /\ StartSearch
    /\ IdleSlim /\ IdleCal
Spec == InitSearch /\ [][NextSearch]_vars

\* Price strings float() treats in its different ways:
\*   "0", "10000", " +7 ", "1_0", "1e1", "-7.9", "15E-1", "1e-400",
\*   0.99999999999999999999 (rounds up to 1.0), 10000000000000001 (beyond
\*   2^53), a no-break space before 7, a vertical tab before and a NEL
\*   after 7, the Arabic-Indic digit 7, the fullwidth digits 1 and 0 around
\*   an underscore, "inf", "-Infinity", "1e999", "nan",
\*   and those it rejects: "1_", "1e", "0x10", a file separator before 7, a
\*   fullwidth plus sign before 7, a no-break space between - and 7, "".
PriceStrings ==
    { DefaultPriceMin, DefaultPriceMax,
      <<32, 43, 55, 32>>, <<49, 95, 48>>, <<49, 101, 49>>, <<45, 55, 46, 57>>,
      <<49, 53, 69, 45, 49>>, <<49, 101, 45, 52, 48, 48>>,
      <<48, 46, 57, 57, 57, 57, 57, 57, 57, 57, 57, 57, 57, 57, 57, 57, 57, 57, 57, 57, 57, 57>>,
      <<49, 48, 48, 48, 48, 48, 48, 48, 48, 48, 48, 48, 48, 48, 48, 48, 49>>,
      <<160, 55>>, <<11, 55, 133>>, <<1639>>, <<65297, 95, 65296>>,
      <<105, 110, 102>>, <<45, 73, 110, 102, 105, 110, 105, 116, 121>>, <<49, 101, 57, 57, 57>>,
      <<110, 97, 110>>,
      <<49, 95>>, <<49, 101>>, <<48, 120, 49, 48>>, <<28, 55>>, <<65291, 55>>, <<45, 160, 55>>, <<>> }

\* The other parameters of a request: the handler is entered with lat, lon
\* and radius as floats, whichever they are.
GateGeo ==
    { [lat |-> FlOfInt(32), lon |-> FlOfInt(-80), radius |-> DefaultRadius],
      [lat |-> FlZero(TRUE), lon |-> FlOfInt(180), radius |-> FlInf(FALSE)],
      [lat |-> FlNaN, lon |-> FlInf(TRUE), radius |-> FlOfInt(-1)] }

\* /search requests over every token, with every string over Chars as one
\* price and each of PriceStrings as the other.
InitGate ==
    /\ req \in { [ token |-> t, lat |-> g.lat, lon |-> g.lon, radius |-> g.radius,
                    price_min |-> p[1], price_max |-> p[2] ] :
                  t \in Tokens, g \in GateGeo,
                  p \in ((Strings(MaxStr) \cup PriceStrings) \X PriceStrings)
                          \cup (PriceStrings \X (Strings(MaxStr) \cup PriceStrings)) }
    /\ upstream \in {Raises("boom"), Returns(<<ExampleHit>>)}
    /\ StartSearch
    /\ IdleSlim /\ IdleCal
SpecGate == InitGate /\ [][NextSearch]_vars

\* /search requests over centres and radii of every magnitude: latitudes
\* from 0.00001 to 800 degrees of either sign and 0 (the decimal strings
\* s m "e" k with s empty or "-", m among 1, 3.2, 3.58378, 8 and 1.799, and
\* k among -5, 0, 1 and 2), the longitudes -80.1 and -0.0, and radii from
\* 1e-320 miles (a subnormal) to 690 miles and 0 (m among 1, 5 and 6.9, k
\* among -320, -18, -3, 0, 1 and 2).
InitGeo ==
    /\ req \in { [ token |-> API_TOKEN, lat |-> c, lon |-> d, radius |-> r,
                    price_min |-> DefaultPriceMin, price_max |-> DefaultPriceMax ] :
                  c \in Decimals({<<>>, <<45>>},
                                 {<<49>>, <<51, 46, 50>>, <<51, 46, 53, 56, 51, 55, 56>>, <<56>>,
                                  <<49, 46, 55, 57, 57>>},
                                 {<<45, 53>>, <<48>>, <<49>>, <<50>>}) \cup {FlZero(FALSE)},
                  d \in {PyFloat(<<45, 56, 48, 46, 49>>), FlZero(TRUE)},
                  r \in Decimals({<<>>},
                                 {<<49>>, <<53>>, <<54, 46, 57>>},
                                 {<<45, 51, 50, 48>>, <<45, 49, 56>>, <<45, 51>>, <<48>>, <<49>>,
                                  <<50>>}) \cup {FlZero(FALSE)} }
    /\ upstream = Returns(<<ExampleHit>>)
    /\ StartSearch
    /\ IdleSlim /\ IdleCal
SpecGeo == InitGeo /\ [][NextSearch]_vars

\* /calendar requests over every answer of the providers.
InitCalendar ==
    /\ creq \in [token : Tokens, room : Rooms]
    /\ ext \in Answers(creq.room)
    /\ cpc = "auth" /\ cst = NoLocals /\ cresp = NoCalResp
    /\ IdleSlim /\ IdleSearch
SpecCalendar == InitCalendar /\ [][NextCalendar]_vars

---------------------------------------------------------------------------
(* Claims about /search.                                                   *)

\* C5: a successful /search echoes the centre and the radius, counts the
\* listings, and listings[i] is the normalization of the i-th record the
\* external search returned: none dropped, duplicated, merged or reordered.
C5_SearchResult ==
    resp.status = 200 =>
        /\ upstream.kind = "return"
        /\ resp.centre_lat = req.lat /\ resp.centre_lon = req.lon
        /\ resp.radius_mi = req.radius
        /\ resp.count = Len(resp.listings)
        /\ Len(resp.listings) = Len(upstream.hits)
        /\ \A i \in 1..Len(upstream.hits) : resp.listings[i] = _slim(upstream.hits[i])

C5_Witness ==
    /\ resp.status = 200
    /\ Len(resp.listings) = 2
    /\ resp.listings[1] # resp.listings[2]
    /\ req.lat # req.lon

\* The external search failed: it raised, or it returned no record.
UpstreamFailed == upstream.kind = "raise" \/ upstream.hits = <<>>

\* C7 (as claimed): every failure of the external search, an empty result
\* included, ends the request in a failure, and the 502 response never comes
\* from an error raised while normalizing.
C7_Original ==
    (pc = "done" /\ calls = 1) =>
        /\ UpstreamFailed => resp.status \notin {200, 500}
        /\ resp.status = 502 => upstream.kind = "raise"

\* What the code's clean_int makes of some price strings: n, or the default
\* where ok is FALSE.  In turn " +7 ", "1_0", "1e1", "-7.9", "15E-1",
\* "1e-400", 0.99999999999999999999, a no-break space before 7, a vertical
\* tab before and a NEL after 7, the Arabic-Indic digit 7, fullwidth 1_0,
\* " 7", "7 ", ".7", "7.", "-0", "7e", "inf", "-Infinity", "1e999", "nan",
\* "1_", "1e", "0x10", a file separator before 7, a fullwidth plus before
\* 7, a no-break space between - and 7, "", "x", "_7", "7_", "-", ".", "e",
\* "e7", "- ", "7x".
CleanCases ==
    { [s |-> <<32, 43, 55, 32>>, ok |-> TRUE, n |-> 7],
      [s |-> <<49, 95, 48>>, ok |-> TRUE, n |-> 10],
      [s |-> <<49, 101, 49>>, ok |-> TRUE, n |-> 10],
      [s |-> <<45, 55, 46, 57>>, ok |-> TRUE, n |-> -7],
      [s |-> <<49, 53, 69, 45, 49>>, ok |-> TRUE, n |-> 1],
      [s |-> <<49, 101, 45, 52, 48, 48>>, ok |-> TRUE, n |-> 0],
      [s |-> <<48, 46, 57, 57, 57, 57, 57, 57, 57, 57, 57, 57, 57, 57, 57, 57, 57, 57, 57, 57, 57, 57>>,
       ok |-> TRUE, n |-> 1],
      [s |-> <<160, 55>>, ok |-> TRUE, n |-> 7],
      [s |-> <<11, 55, 133>>, ok |-> TRUE, n |-> 7],
      [s |-> <<1639>>, ok |-> TRUE, n |-> 7],
      [s |-> <<65297, 95, 65296>>, ok |-> TRUE, n |-> 10],
      [s |-> <<32, 55>>, ok |-> TRUE, n |-> 7],
      [s |-> <<55, 32>>, ok |-> TRUE, n |-> 7],
      [s |-> <<46, 55>>, ok |-> TRUE, n |-> 0],
      [s |-> <<55, 46>>, ok |-> TRUE, n |-> 7],
      [s |-> <<45, 48>>, ok |-> TRUE, n |-> 0],
      [s |-> <<55, 101>>, ok |-> FALSE, n |-> 0],
      [s |-> <<105, 110, 102>>, ok |-> FALSE, n |-> 0],
      [s |-> <<45, 73, 110, 102, 105, 110, 105, 116, 121>>, ok |-> FALSE, n |-> 0],
      [s |-> <<49, 101, 57, 57, 57>>, ok |-> FALSE, n |-> 0],
      [s |-> <<110, 97, 110>>, ok |-> FALSE, n |-> 0],
      [s |-> <<49, 95>>, ok |-> FALSE, n |-> 0],
      [s |-> <<49, 101>>, ok |-> FALSE, n |-> 0],
      [s |-> <<48, 120, 49, 48>>, ok |-> FALSE, n |-> 0],
      [s |-> <<28, 55>>, ok |-> FALSE, n |-> 0],
      [s |-> <<65291, 55>>, ok |-> FALSE, n |-> 0],
      [s |-> <<45, 160, 55>>, ok |-> FALSE, n |-> 0],
      [s |-> <<>>, ok |-> FALSE, n |-> 0],
      [s |-> <<120>>, ok |-> FALSE, n |-> 0],
      [s |-> <<95, 55>>, ok |-> FALSE, n |-> 0],
      [s |-> <<55, 95>>, ok |-> FALSE, n |-> 0],
      [s |-> <<45>>, ok |-> FALSE, n |-> 0],
      [s |-> <<46>>, ok |-> FALSE, n |-> 0],
      [s |-> <<101>>, ok |-> FALSE, n |-> 0],
      [s |-> <<101, 55>>, ok |-> FALSE, n |-> 0],
      [s |-> <<45, 32>>, ok |-> FALSE, n |-> 0],
      [s |-> <<55, 120>>, ok |-> FALSE, n |-> 0] }

\* C9: in every request the handler is entered with, the token is checked
\* first, then the cleaned prices, and only then is the external search
\* invoked, at most once; a wrong token gives 401 whatever the other
\* parameters (prices of any kind, a centre or radius that is a zero, an
\* infinity or a NaN), cleaned price_min >= price_max gives 400
\* without an upstream call, and a price that float() rejects, or int()
\* rejects as an infinity or a NaN, becomes its default (0 or 10000); on
\* the strings of CleanCases the cleaned prices are the ones written there.
C9_Gate ==
    LET lo == clean_int(req.price_min, PyInt(0))
        hi == clean_int(req.price_max, PyInt(10000))
    IN  /\ calls <= 1
        /\ calls = 1 =>
               /\ req.token = API_TOKEN
               /\ IntCmp(lo, hi) < 0
               /\ IntCmp(pmin, pmax) < 0
               /\ box.price_min = pmin /\ box.price_max = pmax
        /\ (pc = "done" /\ req.token # API_TOKEN) => resp.status = 401 /\ calls = 0
        /\ (pc = "done" /\ req.token = API_TOKEN /\ IntCmp(lo, hi) >= 0)
               => resp.status = 400 /\ calls = 0
        /\ (pc = "done" /\ req.token = API_TOKEN /\ IntCmp(lo, hi) < 0)
               => resp.status \notin {400, 401} /\ calls = 1
        /\ (pc \in {"call", "respond", "done"} /\ req.token = API_TOKEN) =>
               /\ PyFloat(req.price_min).kind # "fin" => pmin = PyInt(0)
               /\ PyFloat(req.price_max).kind # "fin" => pmax = PyInt(10000)
               /\ \A c \in CleanCases :
                      /\ req.price_min = c.s => pmin = PyInt(IF c.ok THEN c.n ELSE 0)
                      /\ req.price_max = c.s => pmax = PyInt(IF c.ok THEN c.n ELSE 10000)
        /\ (pc = "done" /\ req.token = API_TOKEN) =>
               \A c \in CleanCases, d \in CleanCases :
                   (req.price_min = c.s /\ req.price_max = d.s) =>
                       IF (IF c.ok THEN c.n ELSE 0) >= (IF d.ok THEN d.n ELSE 10000)
                         THEN resp.status = 400 /\ calls = 0
                         ELSE resp.status # 400 /\ calls = 1

\* A request with the price_min "x" and a no-break space before the 7 of
\* its price_max has reached the external search with the prices 0 and 7.
C9_Witness ==
    /\ pc = "done" /\ calls = 1
    /\ req.price_min = <<120>> /\ pmin = PyInt(0)
    /\ req.price_max = <<160, 55>> /\ pmax = PyInt(7)

---------------------------------------------------------------------------
(* Claims about the bounding box, in exact arithmetic: the floats of an    *)
(* axis are taken as ints in units of 2^e, e the least of their exponents, *)
(* so x/69 = y is written 69 * y = x.                                      *)

Positive(x) == x.kind = "fin" /\ x.mant # <<>> /\ ~x.neg

IntNeg(x) == MkInt(~x.neg, x.mag)

IntAdd(x, y) ==
    IF x.neg = y.neg THEN MkInt(x.neg, NatAdd(x.mag, y.mag))
    ELSE IF NatCmp(x.mag, y.mag) >= 0 THEN MkInt(x.neg, NatSub(x.mag, y.mag))
    ELSE MkInt(y.neg, NatSub(y.mag, x.mag))

IntSub(x, y) == IntAdd(x, IntNeg(y))

\* x * k, for a small k (0 <= k <= Base).
IntMulSmall(x, k) == MkInt(x.neg, NatMulSmall(x.mag, k))

\* The finite float x as an int in units of 2^e, for e no greater than the
\* exponent of x.
Units(x, e) == MkInt(x.neg, ShiftLeft(x.mant, x.exp - e))

\* The box on one axis as claimed: ne = c + r/69, sw = c - r/69, the span
\* is 2r/69, and ne > sw.
AxisExact(c, r, ne, sw) ==
    LET e  == Min(Min(c.exp, r.exp), Min(ne.exp, sw.exp))
        C  == Units(c, e)
        R  == Units(r, e)
        NE == Units(ne, e)
        SW == Units(sw, e)
    IN  /\ ne.kind = "fin" /\ sw.kind = "fin"
        /\ IntMulSmall(IntSub(NE, C), 69) = R
        /\ IntMulSmall(IntSub(C, SW), 69) = R
        /\ IntMulSmall(IntSub(NE, SW), 69) = IntMulSmall(R, 2)
        /\ IntCmp(NE, SW) > 0

\* C6 (as claimed): the box is exactly (lat +- r/69, lon +- r/69): its spans
\* are 2r/69, it is centred on (lat, lon), and its north-east corner is
\* strictly greater than its south-west corner.
C6_Original ==
    (calls = 1 /\ Positive(req.radius)) =>
        /\ AxisExact(req.lat, req.radius, box.ne_lat, box.sw_lat)
        /\ AxisExact(req.lon, req.radius, box.ne_lon, box.sw_lon)

\* The box on one axis: sw <= c <= ne; the span ne - sw is 2r/69 and the
\* middle (ne + sw)/2 is c within the rounding tolerance
\* u(2|c| + 8r/69) + 3h, u = 2^-53 and h = 2^-1074 the smallest float
\* (both inequalities are multiplied by 69 * 2^53); and ne > sw when
\* r/69 >= 4u|c| and r/69 >= h.
AxisOk(c, r, ne, sw) ==
    LET e    == Min(Min(c.exp, r.exp), Min(ne.exp, sw.exp))
        C    == Units(c, e)
        R    == Units(r, e)
        NE   == Units(ne, e)
        SW   == Units(sw, e)
        k    == SigBits + MinExp - e
        H    == IF k >= 0 THEN ShiftLeft(NatOf(207), k) ELSE ShiftRight(NatOf(207), -k)
        tol  == NatAdd(NatAdd(NatMulSmall(C.mag, 138), NatMulSmall(R.mag, 8)), H)
        span == IntSub(IntMulSmall(IntSub(NE, SW), 69), IntMulSmall(R, 2))
        mid  == IntMulSmall(IntSub(IntAdd(NE, SW), IntMulSmall(C, 2)), 69)
        big  == /\ NatCmp(ShiftLeft(R.mag, SigBits - 2), NatMulSmall(C.mag, 69)) >= 0
                /\ NatCmp(ShiftLeft(R.mag, e - MinExp), NatOf(69)) >= 0
    IN  /\ ne.kind = "fin" /\ sw.kind = "fin"
        /\ IntCmp(SW, C) <= 0 /\ IntCmp(C, NE) <= 0
        /\ NatCmp(ShiftLeft(span.mag, SigBits), tol) <= 0
        /\ NatCmp(ShiftLeft(mid.mag, SigBits), tol) <= 0
        /\ big => IntCmp(NE, SW) > 0

\* C6 (amended): for every centre and radius r > 0 the box passed to the
\* external search is the flat approximation computed in floating point,
\* ne = fl(c + d) and sw = fl(c - d) with d = fl(r * fl(1/69)) on both axes:
\* it contains the centre (sw <= c <= ne), its spans are 2r/69 and it is
\* centred on c within rounding tolerance, and ne > sw strictly once r/69
\* is not negligible against |c| (a smaller radius collapses the box).
C6_BoxWithinRounding ==
    (calls = 1 /\ Positive(req.radius)) =>
        /\ AxisOk(req.lat, req.radius, box.ne_lat, box.sw_lat)
        /\ AxisOk(req.lon, req.radius, box.ne_lon, box.sw_lon)

\* A box that collapsed onto its centre although the radius is positive.
C6_Witness ==
    /\ calls = 1 /\ Positive(req.radius) /\ req.lat.mant # <<>>
    /\ box.ne_lat = req.lat /\ box.sw_lat = req.lat

---------------------------------------------------------------------------
(* Claims about /calendar.                                                 *)

\* The details lookup returned (no 404, no exception) a price-input dict.
DetailsOk ==
    /\ creq.token = API_TOKEN
    /\ ext.details.kind = "return"
    /\ \/ Truthy(ext.details.deets) /\ ext.details.price_input.kind = "map"
       \/ ~Truthy(ext.details.deets) /\ ext.ics = "vcalendar"

\* C10: with a valid token and a details lookup that returned a price-input
\* dict, /calendar answers 200 with a calendar, the ICS placeholder when the
\* JSON calendar provider raised or returned None; 502 is never answered;
\* after the ICS fallback of the details lookup the pricing provider is not
\* invoked and details and pricing are null; an exception of the pricing
\* provider leaves pricing null and is no error.
C10_Calendar ==
    /\ cresp.status # 502
    /\ cst.fallback => cst.priceCalls = 0
    /\ (cpc = "done" /\ DetailsOk) =>
           /\ cresp.status = 200
           /\ cresp.calendar # None
           /\ ext.cal \in {"raise", "none"} => cresp.calendar = Map([ics |-> Str(creq.room)])
           /\ cst.fallback => cresp.details = None /\ cresp.pricing = None
           /\ (cst.priceCalls = 1 /\ ext.price = "raise") => cresp.pricing = None
    /\ cst.priceCalls > 0 =>
           /\ Truthy(ext.details.deets)
           /\ PyGet(ext.details.price_input, "api_key", None) # Str("dummy")

C10_Witness ==
    /\ cpc = "done" /\ DetailsOk /\ cst.fallback
    /\ ext.cal = "raise" /\ ext.price = "raise"
    /\ cresp.status = 200

===========================================================================
